---- MODULE Spec2Model ----
(***************************************************************************)
(* Fine-tuning job orchestration of console/services/finetuning.py:       *)
(* the orchestrator thread (_run_fine_tuning_job, _execute_training,      *)
(* _register_model_with_ollama, _fail_job), the cancellation path         *)
(* (cancel_fine_tuning_job), the progress streamer                        *)
(* (get_job_progress_stream), the job row of console/models.py and the    *)
(* external delete of console/views.py, interleaved at the granularity of *)
(* one store access or one process operation per step.                    *)
(***************************************************************************)
EXTENDS Integers, Sequences, FiniteSets, TLC

\* ---------------------------------------------------------------- bounds
NumCancel == 1       \* concurrent cancel_fine_tuning_job calls
NumStreamers == 1    \* concurrent get_job_progress_stream generators
MaxLines == 2        \* output lines one child process emits
MaxScript == 3       \* output lines of a child process whose output is fixed in advance
MaxFileLines == 3    \* lines of a dataset file
MaxPrompt == 4       \* characters of a system prompt
MaxTime == 2         \* last reading of the wall clock
MaxYield == 1        \* non-final snapshots one streamer yields

JobIds == {1}
Cancellers == 1..NumCancel
Streamers == 1..NumStreamers

\* ------------------------------------------------- FineTuningJob (models.py)
STATUS_PENDING == "pending"
STATUS_RUNNING == "running"
STATUS_COMPLETED == "completed"
STATUS_FAILED == "failed"
STATUS_CANCELLED == "cancelled"

\* null of the nullable DateTimeFields started_at / completed_at
NullTime == 0
\* null of the nullable FloatField loss (losses are kept in hundredths)
NullLoss == -1

\* the row FineTuningJob.objects.create() stores: every default of models.py
NewJob ==
    [exists |-> TRUE, status |-> STATUS_PENDING,
     fine_tuned_model |-> "", error_message |-> "",
     started_at |-> NullTime, completed_at |-> NullTime,
     current_epoch |-> 0, current_step |-> 0, total_steps |-> 0,
     loss |-> NullLoss,
     \* what the creating request fixed (learning_rate in ten-thousandths)
     base_model |-> "m", dataset_file |-> "train.jsonl",
     epochs |-> 3, learning_rate |-> 1, batch_size |-> 4]

\* a primary key whose row is gone
NoRow == [NewJob EXCEPT !.exists = FALSE]

\* job.save(update_fields=list(upd)): only the named columns are written
SaveFields(row, upd) ==
    [f \in DOMAIN row |-> IF f \in DOMAIN upd THEN upd[f] ELSE row[f]]

\* ----------------------------------------------------- subprocess.Popen
SIGTERM_CODE == -15
SIGKILL_CODE == -9
OwnExitCodes == {0, 1}

NoProcess == [state |-> "none", code |-> 0, emitted |-> 0]

Alive(p) == p.state \in {"running", "signalled"}

\* process.terminate(): a no-op once the child has been reaped
terminate(p) == IF p.state = "running" THEN [p EXCEPT !.state = "signalled"] ELSE p

\* process.kill(): SIGKILL cannot be caught
kill(p) == IF Alive(p) THEN [p EXCEPT !.state = "exited", !.code = SIGKILL_CODE] ELSE p

\* mutant: TimeoutExpired is swallowed without kill()
wait_without_kill(p) == p

\* process.wait(timeout=10) followed by kill() on TimeoutExpired
wait_then_kill(p) == IF p.state = "exited" THEN p ELSE kill(p)

\* ------------------------------------------------------ Progress parsing
Lines == {"epoch 1/2", "epoch 2/2", "Epoch 2 / 1", "loss: 0.45", "step ok", "   "}

\* raw_line.strip()
strip(line) == IF line = "   " THEN "" ELSE line

\* epoch_pattern.search(line): <<int(group 1), int(group 2)>> or no match
epoch_pattern(line) ==
    CASE line = "epoch 1/2" -> <<1, 2>>
      [] line = "epoch 2/2" -> <<2, 2>>
      [] line = "Epoch 2 / 1" -> <<2, 1>>
      [] OTHER -> <<>>

\* loss_pattern.search(line): <<float(group 1)>> in hundredths, or no match
loss_pattern(line) ==
    CASE line = "loss: 0.45" -> <<45>>
      [] OTHER -> <<>>

NoFields == [f \in {} |-> 0]

\* mutant: total_steps is derived from the current epoch
pending_fields_current_total(line) ==
    LET m == epoch_pattern(line)
        l == loss_pattern(line)
        ep == IF m # <<>>
              THEN [current_epoch |-> m[1], total_steps |-> m[1] * 100,
                    current_step |-> m[1] * 100]
              ELSE NoFields
        ls == IF l # <<>> THEN [loss |-> l[1]] ELSE NoFields
    IN  ls @@ ep

\* pending_fields after one line
pending_fields(line) ==
    LET m == epoch_pattern(line)
        l == loss_pattern(line)
        ep == IF m # <<>>
              THEN [current_epoch |-> m[1], total_steps |-> m[2] * 100,
                    current_step |-> m[1] * 100]
              ELSE NoFields
        ls == IF l # <<>> THEN [loss |-> l[1]] ELSE NoFields
    IN  ls @@ ep

\* ------------------------------------------------------ dataset validation
\* an entry of the error list: f"Line {line}: {what}", f"Line {line}, message
\* {message}: {what}", f"Row {line}: {what}", or {what} alone when line = 0
Error(line, message, what) == [line |-> line, message |-> message, what |-> what]

\* what a call returns: (count, errors); raised names the exception it let out
Returned(count, errors) == [raised |-> "", count |-> count, errors |-> errors, text |-> <<>>]
Raised(exc) == [raised |-> exc, count |-> 0, errors |-> <<>>, text |-> <<>>]

\* lines of a .jsonl file
JsonLines ==
    {"  ",
     "{bad",
     "[1, 2]",
     "{\"invalid\": \"format\"}",
     "{\"messages\": \"hi\"}",
     "{\"messages\": [{\"role\": \"user\", \"content\": \"Hello\"}]}",
     "{\"messages\": [{\"role\": \"user\"}]}",
     "{\"messages\": [5]}"}

\* raw.strip() of a line of a dataset file
strip_raw(raw) == IF raw = "  " THEN "" ELSE raw

\* Python values of parsed JSON: t is the type, v the content (an object's
\* keys with their values, a list's items, the keys a string contains)
PyNone == [t |-> "NoneType", v |-> 0]
PyInt == [t |-> "int", v |-> 0]
PyStr(words) == [t |-> "str", v |-> words]
PyList(items) == [t |-> "list", v |-> items]
PyDict(fields) == [t |-> "dict", v |-> fields]
JSONDecodeError == [t |-> "JSONDecodeError", v |-> 0]

\* json.loads(line)
json_loads(line) ==
    CASE line = "[1, 2]" -> PyList(<<PyInt, PyInt>>)
      [] line = "{\"invalid\": \"format\"}" -> PyDict([invalid |-> PyStr({})])
      [] line = "{\"messages\": \"hi\"}" -> PyDict([messages |-> PyStr({})])
      [] line = "{\"messages\": [{\"role\": \"user\", \"content\": \"Hello\"}]}" ->
            PyDict([messages |-> PyList(<<PyDict([role |-> PyStr({}), content |-> PyStr({})])>>)])
      [] line = "{\"messages\": [{\"role\": \"user\"}]}" ->
            PyDict([messages |-> PyList(<<PyDict([role |-> PyStr({})])>>)])
      [] line = "{\"messages\": [5]}" -> PyDict([messages |-> PyList(<<PyInt>>)])
      [] OTHER -> JSONDecodeError

\* data.get(key): only a dict has the method
dict_get(data, key) == IF key \in DOMAIN data.v THEN data.v[key] ELSE PyNone

\* key in msg: key lookup in a dict, substring test in a str
key_in(key, msg) == IF msg.t = "dict" THEN key \in DOMAIN msg.v ELSE key \in msg.v

\* for j, msg in enumerate(messages): the errors of one record's messages
message_errors(i, messages) ==
    LET f[j \in 0..Len(messages.v)] ==
            IF j = 0 THEN Returned(0, <<>>)
            ELSE LET prev == f[j - 1]
                     msg == messages.v[j]
                 IN  IF prev.raised # "" THEN prev
                     ELSE IF msg.t \notin {"dict", "str"} THEN Raised("TypeError")
                     ELSE IF ~key_in("role", msg) \/ ~key_in("content", msg)
                     THEN Returned(0, Append(prev.errors,
                              Error(i, j - 1, "missing 'role' or 'content'")))
                     ELSE prev
    IN  f[Len(messages.v)]

\* mutant: a line that is not valid JSON ends the scan
_validate_jsonl_fail_fast(lines) ==
    LET f[i \in 0..Len(lines)] ==
            IF i = 0 THEN Returned(0, <<>>)
            ELSE LET prev == f[i - 1]
                     line == strip_raw(lines[i])
                     data == json_loads(line)
                 IN  IF prev.raised # "" \/ prev.errors # <<>> THEN prev
                     ELSE IF line = "" THEN prev
                     ELSE IF data.t = "JSONDecodeError"
                     THEN Returned(prev.count + 1,
                                   Append(prev.errors, Error(i, -1, "Invalid JSON")))
                     ELSE IF data.t # "dict" THEN Raised("AttributeError")
                     ELSE LET messages == dict_get(data, "messages")
                          IN  IF messages.t = "NoneType"
                              THEN Returned(prev.count + 1,
                                     Append(prev.errors, Error(i, -1, "Missing 'messages' field")))
                              ELSE IF messages.t # "list"
                              THEN Returned(prev.count + 1,
                                     Append(prev.errors, Error(i, -1, "'messages' must be a list")))
                              ELSE LET me == message_errors(i, messages)
                                   IN  IF me.raised # "" THEN me
                                       ELSE Returned(prev.count + 1, prev.errors \o me.errors)
    IN  f[Len(lines)]

\* _validate_jsonl(fh): for i, raw in enumerate(fh, 1)
_validate_jsonl(lines) ==
    LET f[i \in 0..Len(lines)] ==
            IF i = 0 THEN Returned(0, <<>>)
            ELSE LET prev == f[i - 1]
                     line == strip_raw(lines[i])
                     data == json_loads(line)
                 IN  IF prev.raised # "" THEN prev
                     ELSE IF line = "" THEN prev
                     ELSE IF data.t = "JSONDecodeError"
                     THEN Returned(prev.count + 1,
                                   Append(prev.errors, Error(i, -1, "Invalid JSON")))
                     ELSE IF data.t # "dict" THEN Raised("AttributeError")
                     ELSE LET messages == dict_get(data, "messages")
                          IN  IF messages.t = "NoneType"
                              THEN Returned(prev.count + 1,
                                     Append(prev.errors, Error(i, -1, "Missing 'messages' field")))
                              ELSE IF messages.t # "list"
                              THEN Returned(prev.count + 1,
                                     Append(prev.errors, Error(i, -1, "'messages' must be a list")))
                              ELSE LET me == message_errors(i, messages)
                                   IN  IF me.raised # "" THEN me
                                       ELSE Returned(prev.count + 1, prev.errors \o me.errors)
    IN  f[Len(lines)]

\* lines of a .csv file
CsvLines ==
    {"role,content", "wrong,columns", "role", "content",
     "user,Hello", ",Hello", "user,", ""}

\* csv.reader: the fields of one line; a blank line is the empty row
csv_row(line) ==
    CASE line = "role,content" -> <<"role", "content">>
      [] line = "wrong,columns" -> <<"wrong", "columns">>
      [] line = "role" -> <<"role">>
      [] line = "content" -> <<"content">>
      [] line = "user,Hello" -> <<"user", "Hello">>
      [] line = ",Hello" -> <<"", "Hello">>
      [] line = "user," -> <<"user", "">>
      [] OTHER -> <<>>

\* DictReader's restval for a field the row is too short for
RestVal == "<None>"

\* row.get(key) of the dict DictReader builds from fieldnames and one row
row_get(fieldnames, row, key) ==
    IF \E k \in 1..Len(fieldnames) : fieldnames[k] = key
    THEN LET k == CHOOSE k \in 1..Len(fieldnames) : fieldnames[k] = key
         IN  IF k <= Len(row) THEN row[k] ELSE RestVal
    ELSE RestVal

\* not value
falsy(value) == value \in {"", RestVal}

\* f"CSV is missing required columns: {', '.join(sorted(missing))}"
missing_columns(missing) ==
    IF missing = {"role", "content"} THEN "CSV is missing required columns: content, role"
    ELSE IF missing = {"role"} THEN "CSV is missing required columns: role"
    ELSE "CSV is missing required columns: content"

\* the rows DictReader yields after the header: blank lines are skipped
data_rows(lines) ==
    LET f[i \in 1..(Len(lines) + 1)] ==
            IF i > Len(lines) THEN <<>>
            ELSE IF i = 1 \/ csv_row(lines[i]) = <<>> THEN f[i + 1]
            ELSE <<csv_row(lines[i])>> \o f[i + 1]
    IN  f[1]

\* mutant: the rows are scanned although a column is missing
_validate_csv_unchecked(lines) ==
    LET fieldnames == IF Len(lines) = 0 THEN <<>> ELSE csv_row(lines[1])
        rows == data_rows(lines)
        f[i \in 0..Len(rows)] ==
            IF i = 0 THEN Returned(0, <<>>)
            ELSE LET prev == f[i - 1]
                 IN  IF \/ falsy(row_get(fieldnames, rows[i], "role"))
                        \/ falsy(row_get(fieldnames, rows[i], "content"))
                     THEN Returned(prev.count + 1,
                            Append(prev.errors, Error(i, -1, "'role' or 'content' is empty")))
                     ELSE Returned(prev.count + 1, prev.errors)
    IN  f[Len(rows)]

\* _validate_csv(fh)
_validate_csv(lines) ==
    LET fieldnames == IF Len(lines) = 0 THEN <<>> ELSE csv_row(lines[1])
        missing == {"role", "content"} \ {fieldnames[k] : k \in 1..Len(fieldnames)}
        rows == data_rows(lines)
        f[i \in 0..Len(rows)] ==
            IF i = 0 THEN Returned(0, <<>>)
            ELSE LET prev == f[i - 1]
                 IN  IF \/ falsy(row_get(fieldnames, rows[i], "role"))
                        \/ falsy(row_get(fieldnames, rows[i], "content"))
                     THEN Returned(prev.count + 1,
                            Append(prev.errors, Error(i, -1, "'role' or 'content' is empty")))
                     ELSE Returned(prev.count + 1, prev.errors)
    IN  IF missing # {}
        THEN Returned(0, <<Error(0, -1, missing_columns(missing))>>)
        ELSE f[Len(rows)]

\* a dataset file: whether the path exists, whether open() succeeds, the
\* suffix of the path, whether the bytes are UTF-8, and the lines
DatasetFile(exists, readable, suffix, decodable, lines) ==
    [exists |-> exists, readable |-> readable, suffix |-> suffix,
     decodable |-> decodable, lines |-> lines]

\* validate_dataset_format(dataset_path): only OSError is caught
validate_dataset_format(file) ==
    IF ~file.exists THEN Returned(0, <<Error(0, -1, "Dataset file not found")>>)
    ELSE IF ~file.readable THEN Returned(0, <<Error(0, -1, "Error reading dataset")>>)
    ELSE IF file.suffix \notin {".jsonl", ".csv"}
    THEN Returned(0, <<Error(0, -1, "Unsupported file format. Use .jsonl or .csv")>>)
    ELSE IF ~file.decodable THEN Raised("UnicodeDecodeError")
    ELSE IF file.suffix = ".jsonl" THEN _validate_jsonl(file.lines)
    ELSE _validate_csv(file.lines)

\* ------------------------------------------------------ Modelfile creation
\* characters of a system prompt
PromptChars == {"a", "\"", "\n"}

\* system_prompt.replace('"""', '""\\"'): left to right, without overlap
replace_triple_quotes(p) ==
    LET f[i \in 1..(Len(p) + 1)] ==
            IF i > Len(p) THEN <<>>
            ELSE IF i + 2 <= Len(p) /\ p[i] = "\"" /\ p[i + 1] = "\"" /\ p[i + 2] = "\""
            THEN <<"\"", "\"", "\\", "\"">> \o f[i + 3]
            ELSE <<p[i]>> \o f[i + 1]
    IN  f[1]

\* mutant: the SYSTEM block is written for an empty prompt as well
create_modelfile_always_system(base_model, system_prompt) ==
    <<"FROM ", base_model>>
       \o (<<"\n", "SYSTEM \"\"\"", "\n">> \o replace_triple_quotes(system_prompt)
               \o <<"\n", "\"\"\"">>)
       \o <<"\n">>

\* create_modelfile(base_model, system_prompt): the text, piece by piece
create_modelfile(base_model, system_prompt) ==
    <<"FROM ", base_model>>
       \o (IF system_prompt # <<>>
           THEN <<"\n", "SYSTEM \"\"\"", "\n">> \o replace_triple_quotes(system_prompt)
                   \o <<"\n", "\"\"\"">>
           ELSE <<>>)
       \o <<"\n">>

\* ------------------------------------------------------------- messages
\* the error list validate_dataset_format returns for each kind of dataset file
dataset_errors(kind) ==
    IF kind = "invalid"
    THEN <<"Line 1: Missing 'messages' field",
           "Line 2, message 0: missing 'role' or 'content'">>
    ELSE <<>>

\* mutant: only the first error is reported
join_first(errs) == IF Len(errs) = 0 THEN "" ELSE errs[1]

\* "; ".join(errs)
join(errs) ==
    LET f[i \in 0..Len(errs)] ==
            IF i = 0 THEN ""
            ELSE IF i = 1 THEN errs[1]
            ELSE f[i - 1] \o "; " \o errs[i]
    IN  f[Len(errs)]

\* "Dataset validation failed: " + "; ".join(dataset_errors)
MsgValidation == "Dataset validation failed: " \o join(dataset_errors("invalid"))
MsgBinary == "Training binary not found. Ensure llama-finetune (or equivalent) is installed and on PATH. (job_id=1)"
MsgUnexpected == "Unexpected error: Save with update_fields did not affect any rows."
MsgCreateFailed == "'ollama create' failed: error"
MsgCreateTimeout == "'ollama create' timed out after 300 s."
MsgOllamaMissing == "Ollama binary not found. Ensure Ollama is installed and on PATH."

\* str(FineTuningError(f"Training process exited with code {return_code}", job_id))
MsgExit(code) ==
    CASE code = 1 -> "Training process exited with code 1 (job_id=1)"
      [] code = SIGTERM_CODE -> "Training process exited with code -15 (job_id=1)"
      [] code = SIGKILL_CODE -> "Training process exited with code -9 (job_id=1)"
      [] OTHER -> "Training process exited with code 0 (job_id=1)"

\* the same two messages with the id of the job they are raised for
MsgBinaryOf(j) ==
    IF j = 1 THEN MsgBinary
    ELSE "Training binary not found. Ensure llama-finetune (or equivalent) is installed and on PATH. (job_id=2)"

MsgExitOf(j, code) ==
    IF j = 1 THEN MsgExit(code)
    ELSE CASE code = 1 -> "Training process exited with code 1 (job_id=2)"
           [] code = SIGTERM_CODE -> "Training process exited with code -15 (job_id=2)"
           [] code = SIGKILL_CODE -> "Training process exited with code -9 (job_id=2)"
           [] OTHER -> "Training process exited with code 0 (job_id=2)"

\* f"{job.base_model.split(':')[0]}-finetuned-{job.id}" for base model "m:latest"
model_name(j) == IF j = 1 THEN "m-finetuned-1" ELSE "m-finetuned-2"

DatasetKinds == {"valid", "invalid", "raises"}
RegistrarOutcomes == {"ok", "nonzero", "timeout", "notfound", "oserror"}

\* _process_lock when no thread is inside a 'with _process_lock' block
Unlocked == <<>>

\* no function call is being looked at
NoFile == [exists |-> FALSE, readable |-> FALSE, suffix |-> "", decodable |-> FALSE, lines |-> <<>>]
NoCall == [fn |-> "none", file |-> NoFile, base_model |-> "", system_prompt |-> <<>>]
NoResult == [raised |-> "pending", count |-> 0, errors |-> <<>>, text |-> <<>>]

VARIABLES
    store,        \* Job Store: job id -> row
    now,          \* the latest reading of timezone.now()
    dataset,      \* job id -> what validate_dataset_format does with dataset_file
    binary,       \* job id -> whether llama-finetune is on PATH
    script,       \* job id -> the lines the child will write, when they are fixed
                  \*           in advance; <<>> when the child writes what it likes
    opc,          \* job id -> position of the orchestrator thread
    omsg,         \* job id -> message of the error the orchestrator caught
    proc,         \* job id -> the child process
    _running_processes, \* Process Registry: job id -> whether a handle is registered
    progressWrites,     \* job id -> number of progress writes persisted
    cancelMidRun, \* job id -> a cancel call looked the handle up after the first
                  \*           progress write while the child was alive
    cpc,          \* cancel call -> position
    cjob,         \* cancel call -> job_id argument
    chandle,      \* cancel call -> whether the registry lookup found a handle
    cres,         \* cancel call -> return value
    spc,          \* streamer -> position
    sjob,         \* streamer -> job_id argument
    yielded,      \* streamer -> sequence of elements yielded so far
    call,         \* a call of a function of the service module: name and arguments
    ret,          \* what that call returned or raised; NoResult before it ran
    _process_lock \* threading.Lock(): the thread that holds it, or Unlocked

vars == <<store, now, dataset, binary, script, opc, omsg, proc, _running_processes,
          progressWrites, cancelMidRun, cpc, cjob, chandle, cres, spc, sjob, yielded,
          call, ret, _process_lock>>

orchVars == <<opc, omsg, proc, _running_processes, progressWrites>>
cancelVars == <<cpc, cjob, chandle, cres, cancelMidRun>>
streamVars == <<spc, sjob, yielded>>
envVars == <<dataset, binary, script>>
callVars == <<call, ret>>
lockVars == <<_process_lock>>

Init ==
    /\ store = [j \in JobIds |-> NewJob]
    /\ now = 1
    /\ dataset \in [JobIds -> DatasetKinds]
    /\ binary \in [JobIds -> BOOLEAN]
    /\ script = [j \in JobIds |-> <<>>]
    /\ opc = [j \in JobIds |-> "load"]
    /\ omsg = [j \in JobIds |-> ""]
    /\ proc = [j \in JobIds |-> NoProcess]
    /\ _running_processes = [j \in JobIds |-> FALSE]
    /\ progressWrites = [j \in JobIds |-> 0]
    /\ cpc = [c \in Cancellers |-> "idle"]
    /\ cjob \in [Cancellers -> JobIds]
    /\ chandle = [c \in Cancellers |-> FALSE]
    /\ cres = [c \in Cancellers |-> FALSE]
    /\ cancelMidRun = [j \in JobIds |-> FALSE]
    /\ spc = [s \in Streamers |-> "polling"]
    /\ sjob \in [Streamers -> JobIds]
    /\ yielded = [s \in Streamers |-> <<>>]
    /\ call = NoCall
    /\ ret = NoResult
    /\ _process_lock = Unlocked

\* ------------------------------------------------------------ row writes
\* mutant: started_at is not stamped
running_write_unstamped(row, t) == SaveFields(row, [status |-> STATUS_RUNNING])

\* job.status = RUNNING; job.started_at = now; save(["status", "started_at"])
running_write(row, t) ==
    SaveFields(row, [status |-> STATUS_RUNNING, started_at |-> t])

\* mutant: the completion write also moves the progress to its end
completed_write_full_progress(row, name, t) ==
    SaveFields(row, [status |-> STATUS_COMPLETED, fine_tuned_model |-> name,
                     completed_at |-> t, current_step |-> row.total_steps])

\* job.status = COMPLETED; job.fine_tuned_model = name; job.completed_at = now; save
completed_write(row, name, t) ==
    SaveFields(row, [status |-> STATUS_COMPLETED, fine_tuned_model |-> name,
                     completed_at |-> t])

\* mutant: the failure is stored without its completion time
failed_write_unstamped(row, message, t) ==
    SaveFields(row, [status |-> STATUS_FAILED, error_message |-> message])

\* job.status = FAILED; job.error_message = message; job.completed_at = now; save
failed_write(row, message, t) ==
    SaveFields(row, [status |-> STATUS_FAILED, error_message |-> message,
                     completed_at |-> t])

\* job.status = CANCELLED; job.completed_at = now; save(["status", "completed_at"])
cancelled_write(row, t) ==
    SaveFields(row, [status |-> STATUS_CANCELLED, completed_at |-> t])

\* with _process_lock: _running_processes[job.id] = process
register(reg, j) == [reg EXCEPT ![j] = TRUE]

\* mutant: the finally block is missing
unregister_skipped(reg, j) == reg

\* mutant: the finally block empties the registry
unregister_clear(reg, j) == [k \in DOMAIN reg |-> FALSE]

\* finally: with _process_lock: _running_processes.pop(job.id, None)
unregister(reg, j) == [reg EXCEPT ![j] = FALSE]

\* ----------------------------------------------------------- environment
\* timezone.now(): the clock never runs backwards between two readings
Readings(t) == t..MaxTime

\* the child exits on its own account, or because of a pending SIGTERM
ProcessExit(j) ==
    /\ Alive(proc[j])
    /\ \E code \in OwnExitCodes \cup
                   (IF proc[j].state = "signalled" THEN {SIGTERM_CODE} ELSE {}) :
          proc' = [proc EXCEPT ![j].state = "exited", ![j].code = code]
    /\ UNCHANGED <<store, now, envVars, callVars, lockVars, opc, omsg, _running_processes,
                   progressWrites, cancelVars, streamVars>>

\* views.finetune_delete: job.delete()
finetune_delete(j) ==
    /\ store[j].exists
    /\ store' = [store EXCEPT ![j] = NoRow]
    /\ UNCHANGED <<now, envVars, callVars, lockVars, orchVars, cancelVars, streamVars>>

\* ----------------------------------------------------------- orchestrator
\* 1. FineTuningJob.objects.get(pk=job_id); DoesNotExist -> return
_run_fine_tuning_job_load(j) ==
    /\ opc[j] = "load"
    /\ opc' = [opc EXCEPT ![j] = IF store[j].exists THEN "mark_running" ELSE "done"]
    /\ UNCHANGED <<store, now, envVars, callVars, lockVars, omsg, proc, _running_processes,
                   progressWrites, cancelVars, streamVars>>

\* job.save(update_fields=["status", "started_at"]), outside every try block:
\* a row that is gone raises DatabaseError out of the thread
_run_fine_tuning_job_mark_running(j) ==
    /\ opc[j] = "mark_running"
    /\ IF store[j].exists
       THEN /\ \E t \in Readings(now) :
                  /\ now' = t
                  /\ store' = [store EXCEPT ![j] = running_write(@, t)]
            /\ opc' = [opc EXCEPT ![j] = "validate"]
       ELSE /\ opc' = [opc EXCEPT ![j] = "crashed_mark"]
            /\ UNCHANGED <<store, now>>
    /\ UNCHANGED <<envVars, callVars, lockVars, omsg, proc, _running_processes,
                   progressWrites, cancelVars, streamVars>>

\* mutant: the error list is not looked at
_run_fine_tuning_job_validate_ignored(j) ==
    /\ opc[j] = "validate"
    /\ CASE dataset[j] = "raises" ->
              /\ opc' = [opc EXCEPT ![j] = "crashed_validate"]
              /\ UNCHANGED omsg
         [] OTHER ->
              /\ opc' = [opc EXCEPT ![j] = "popen"]
              /\ UNCHANGED omsg
    /\ UNCHANGED <<store, now, envVars, callVars, lockVars, proc, _running_processes,
                   progressWrites, cancelVars, streamVars>>

\* 2. validate_dataset_format(job.dataset_file), outside every try block
_run_fine_tuning_job_validate(j) ==
    /\ opc[j] = "validate"
    /\ CASE dataset[j] = "valid" ->
              /\ opc' = [opc EXCEPT ![j] = "popen"]
              /\ UNCHANGED omsg
         [] dataset[j] = "invalid" ->
              /\ opc' = [opc EXCEPT ![j] = "fail"]
              /\ omsg' = [omsg EXCEPT ![j] =
                             "Dataset validation failed: " \o join(dataset_errors(dataset[j]))]
         [] OTHER ->
              /\ opc' = [opc EXCEPT ![j] = "crashed_validate"]
              /\ UNCHANGED omsg
    /\ UNCHANGED <<store, now, envVars, callVars, lockVars, proc, _running_processes,
                   progressWrites, cancelVars, streamVars>>

\* _fail_job(job, message): refresh_from_db and save inside try/except Exception
_fail_job(j) ==
    /\ opc[j] = "fail"
    /\ IF store[j].exists
       THEN \E t \in Readings(now) :
               /\ now' = t
               /\ store' = [store EXCEPT ![j] = failed_write(@, omsg[j], t)]
       ELSE \* DoesNotExist from refresh_from_db is swallowed
            UNCHANGED <<store, now>>
    /\ opc' = [opc EXCEPT ![j] = "done"]
    /\ UNCHANGED <<envVars, callVars, lockVars, omsg, proc, _running_processes,
                   progressWrites, cancelVars, streamVars>>

\* mutant: the result of 'ollama create' is not looked at
_register_model_with_ollama_unchecked(j) ==
    /\ opc[j] = "register_model"
    /\ \E outcome \in RegistrarOutcomes :
          CASE outcome \in {"ok", "nonzero"} ->
                 /\ opc' = [opc EXCEPT ![j] = "complete"]
                 /\ omsg' = [omsg EXCEPT ![j] =
                       IF outcome = "nonzero" THEN MsgCreateFailed ELSE @]
            [] outcome = "oserror" ->
                 /\ opc' = [opc EXCEPT ![j] = "crashed_register"]
                 /\ UNCHANGED omsg
            [] OTHER ->
                 /\ opc' = [opc EXCEPT ![j] = "fail"]
                 /\ omsg' = [omsg EXCEPT ![j] =
                       CASE outcome = "timeout" -> MsgCreateTimeout
                         [] OTHER -> MsgOllamaMissing]
    /\ UNCHANGED <<store, now, envVars, callVars, lockVars, proc, _running_processes,
                   progressWrites, cancelVars, streamVars>>

\* 4. _register_model_with_ollama: only FineTuningError is caught by the caller
_register_model_with_ollama(j) ==
    /\ opc[j] = "register_model"
    /\ \E outcome \in RegistrarOutcomes :
          CASE outcome = "ok" ->
                 /\ opc' = [opc EXCEPT ![j] = "complete"]
                 /\ UNCHANGED omsg
            [] outcome = "oserror" ->
                 /\ opc' = [opc EXCEPT ![j] = "crashed_register"]
                 /\ UNCHANGED omsg
            [] OTHER ->
                 /\ opc' = [opc EXCEPT ![j] = "fail"]
                 /\ omsg' = [omsg EXCEPT ![j] =
                       CASE outcome = "nonzero" -> MsgCreateFailed
                         [] outcome = "timeout" -> MsgCreateTimeout
                         [] OTHER -> MsgOllamaMissing]
    /\ UNCHANGED <<store, now, envVars, callVars, lockVars, proc, _running_processes,
                   progressWrites, cancelVars, streamVars>>

\* 5. job.refresh_from_db() (DoesNotExist escapes), then the completion write
_run_fine_tuning_job_complete(j) ==
    /\ opc[j] = "complete"
    /\ IF store[j].exists
       THEN /\ \E t \in Readings(now) :
                  /\ now' = t
                  /\ store' = [store EXCEPT ![j] = completed_write(@, model_name(j), t)]
            /\ opc' = [opc EXCEPT ![j] = "done"]
       ELSE /\ opc' = [opc EXCEPT ![j] = "crashed_complete"]
            /\ UNCHANGED <<store, now>>
    /\ UNCHANGED <<envVars, callVars, lockVars, omsg, proc, _running_processes,
                   progressWrites, cancelVars, streamVars>>

\* --------------------------------------------------------------- executor
\* mutant: FileNotFoundError is not translated and reaches "except Exception"
_execute_training_popen_untranslated(j) ==
    /\ opc[j] = "popen"
    /\ IF binary[j]
       THEN /\ proc' = [proc EXCEPT ![j].state = "running"]
            /\ opc' = [opc EXCEPT ![j] = "register"]
            /\ UNCHANGED omsg
       ELSE /\ omsg' = [omsg EXCEPT ![j] = MsgUnexpected]
            /\ opc' = [opc EXCEPT ![j] = "fail"]
            /\ UNCHANGED proc
    /\ UNCHANGED <<store, now, envVars, callVars, lockVars, _running_processes, progressWrites,
                   cancelVars, streamVars>>

\* subprocess.Popen(cmd, ...); FileNotFoundError -> FineTuningError
_execute_training_popen(j) ==
    /\ opc[j] = "popen"
    /\ IF binary[j]
       THEN /\ proc' = [proc EXCEPT ![j].state = "running"]
            /\ opc' = [opc EXCEPT ![j] = "register"]
            /\ UNCHANGED omsg
       ELSE /\ omsg' = [omsg EXCEPT ![j] = MsgBinaryOf(j)]
            /\ opc' = [opc EXCEPT ![j] = "fail"]
            /\ UNCHANGED proc
    /\ UNCHANGED <<store, now, envVars, callVars, lockVars, _running_processes, progressWrites,
                   cancelVars, streamVars>>

\* with _process_lock: _running_processes[job.id] = process
_execute_training_register(j) ==
    /\ opc[j] = "register"
    /\ _running_processes' = register(_running_processes, j)
    /\ opc' = [opc EXCEPT ![j] = "read"]
    /\ UNCHANGED <<store, now, envVars, callVars, lockVars, omsg, proc, progressWrites,
                   cancelVars, streamVars>>

\* mutant: job.save() without update_fields writes every column of the
\* executor's own copy of the row, whose status is still RUNNING
read_line_full_save(j, raw_line) ==
    LET line == strip(raw_line)
        upd == pending_fields(line)
    IN  /\ proc' = [proc EXCEPT ![j].emitted = @ + 1]
        /\ IF line = ""
           THEN UNCHANGED <<store, opc, omsg, _running_processes, progressWrites>>
           ELSE IF upd = NoFields
           THEN /\ opc' = [opc EXCEPT ![j] = "check"]
                /\ UNCHANGED <<store, omsg, _running_processes, progressWrites>>
           ELSE IF store[j].exists
           THEN /\ store' = [store EXCEPT ![j] =
                                SaveFields(@, upd @@ [status |-> STATUS_RUNNING,
                                                      completed_at |-> NullTime])]
                /\ progressWrites' = [progressWrites EXCEPT ![j] = @ + 1]
                /\ opc' = [opc EXCEPT ![j] = "check"]
                /\ UNCHANGED <<omsg, _running_processes>>
           ELSE /\ _running_processes' = unregister(_running_processes, j)
                /\ omsg' = [omsg EXCEPT ![j] = MsgUnexpected]
                /\ opc' = [opc EXCEPT ![j] = "fail"]
                /\ UNCHANGED <<store, progressWrites>>
        /\ UNCHANGED <<now, envVars, callVars, lockVars, cancelVars, streamVars>>

\* the body of "for raw_line in process.stdout" up to the partial save
read_line(j, raw_line) ==
    LET line == strip(raw_line)
        upd == pending_fields(line)
    IN  /\ proc' = [proc EXCEPT ![j].emitted = @ + 1]
        /\ IF line = ""
           THEN \* continue
                UNCHANGED <<store, opc, omsg, _running_processes, progressWrites>>
           ELSE IF upd = NoFields
           THEN /\ opc' = [opc EXCEPT ![j] = "check"]
                /\ UNCHANGED <<store, omsg, _running_processes, progressWrites>>
           ELSE IF store[j].exists
           THEN /\ store' = [store EXCEPT ![j] = SaveFields(@, upd)]
                /\ progressWrites' = [progressWrites EXCEPT ![j] = @ + 1]
                /\ opc' = [opc EXCEPT ![j] = "check"]
                /\ UNCHANGED <<omsg, _running_processes>>
           ELSE \* DatabaseError: finally, then "except Exception" of the caller
                /\ _running_processes' = unregister(_running_processes, j)
                /\ omsg' = [omsg EXCEPT ![j] = MsgUnexpected]
                /\ opc' = [opc EXCEPT ![j] = "fail"]
                /\ UNCHANGED <<store, progressWrites>>
        /\ UNCHANGED <<now, envVars, callVars, lockVars, cancelVars, streamVars>>

\* one iteration of the loop on a line of the child's choosing;
\* a line may still be buffered in the pipe after the child has exited
_execute_training_line(j) ==
    /\ opc[j] = "read"
    /\ script[j] = <<>>
    /\ proc[j].emitted < MaxLines
    /\ \E raw_line \in Lines : read_line(j, raw_line)

\* one iteration of the loop on the next line of a child whose output is fixed
_execute_training_script_line(j) ==
    /\ opc[j] = "read"
    /\ proc[j].emitted < Len(script[j])
    /\ read_line(j, script[j][proc[j].emitted + 1])

\* the stream is exhausted: the finally block, then on to process.wait()
_execute_training_eof(j) ==
    /\ opc[j] = "read"
    /\ proc[j].state = "exited"
    /\ proc[j].emitted >= Len(script[j])
    /\ _running_processes' = unregister(_running_processes, j)
    /\ opc' = [opc EXCEPT ![j] = "exit_wait"]
    /\ UNCHANGED <<store, now, envVars, callVars, lockVars, omsg, proc, progressWrites,
                   cancelVars, streamVars>>

\* filter(pk=job.id).values_list("status", flat=True).first()
current_status(row) == IF row.exists THEN row.status ELSE "None"

\* the cancellation check after a non-blank line; on CANCELLED process.terminate()
_execute_training_check(j) ==
    /\ opc[j] = "check"
    /\ IF current_status(store[j]) = STATUS_CANCELLED
       THEN /\ proc' = [proc EXCEPT ![j] = terminate(@)]
            /\ opc' = [opc EXCEPT ![j] = "cancel_wait"]
       ELSE /\ opc' = [opc EXCEPT ![j] = "read"]
            /\ UNCHANGED proc
    /\ UNCHANGED <<store, now, envVars, callVars, lockVars, omsg, _running_processes, progressWrites,
                   cancelVars, streamVars>>

\* process.wait(timeout=10) / kill(), return through the finally block;
\* the orchestrator then goes on to step 4
_execute_training_cancel_wait(j) ==
    /\ opc[j] = "cancel_wait"
    /\ proc' = [proc EXCEPT ![j] = wait_then_kill(@)]
    /\ _running_processes' = unregister(_running_processes, j)
    /\ opc' = [opc EXCEPT ![j] = "register_model"]
    /\ UNCHANGED <<store, now, envVars, callVars, lockVars, omsg, progressWrites, cancelVars, streamVars>>

\* mutant: the return code is not looked at
_execute_training_exit_wait_unchecked(j) ==
    /\ opc[j] = "exit_wait"
    /\ proc[j].state = "exited"
    /\ opc' = [opc EXCEPT ![j] = "register_model"]
    /\ UNCHANGED <<store, now, envVars, callVars, lockVars, omsg, proc, _running_processes,
                   progressWrites, cancelVars, streamVars>>

\* return_code = process.wait(); non-zero -> FineTuningError
_execute_training_exit_wait(j) ==
    /\ opc[j] = "exit_wait"
    /\ proc[j].state = "exited"
    /\ IF proc[j].code # 0
       THEN /\ omsg' = [omsg EXCEPT ![j] = MsgExitOf(j, proc[j].code)]
            /\ opc' = [opc EXCEPT ![j] = "fail"]
       ELSE /\ opc' = [opc EXCEPT ![j] = "register_model"]
            /\ UNCHANGED omsg
    /\ UNCHANGED <<store, now, envVars, callVars, lockVars, proc, _running_processes, progressWrites,
                   cancelVars, streamVars>>

\* ---------------------------------------------------- cancel_fine_tuning_job
\* mutant: a job that has not started yet is cancelled as well
cancellable_or_pending(row) == row.status \in {STATUS_RUNNING, STATUS_PENDING}

\* the status a cancel request must read to be applied
cancellable(row) == row.status = STATUS_RUNNING

\* FineTuningJob.objects.get(pk=job_id) and the status test
cancel_fine_tuning_job_load(c) ==
    /\ cpc[c] = "idle"
    /\ \A b \in Cancellers : b < c => cpc[b] # "idle"   \* calls are numbered as they begin
    /\ LET row == store[cjob[c]]
       IN  IF row.exists /\ cancellable(row)
           THEN cpc' = [cpc EXCEPT ![c] = "lookup"]
           ELSE cpc' = [cpc EXCEPT ![c] = "done"]
    /\ UNCHANGED <<store, now, envVars, callVars, lockVars, orchVars, cjob, chandle, cres, cancelMidRun, streamVars>>

\* with _process_lock: process = _running_processes.get(job_id);
\* if process is not None: process.terminate()
cancel_fine_tuning_job_lookup(c) ==
    /\ cpc[c] = "lookup"
    /\ cancelMidRun' = [cancelMidRun EXCEPT ![cjob[c]] =
                           @ \/ (progressWrites[cjob[c]] > 0 /\ Alive(proc[cjob[c]]))]
    /\ IF _running_processes[cjob[c]]
       THEN /\ chandle' = [chandle EXCEPT ![c] = TRUE]
            /\ proc' = [proc EXCEPT ![cjob[c]] = terminate(@)]
            /\ cpc' = [cpc EXCEPT ![c] = "wait"]
       ELSE /\ cpc' = [cpc EXCEPT ![c] = "write"]
            /\ UNCHANGED <<chandle, proc>>
    /\ UNCHANGED <<store, now, envVars, callVars, lockVars, opc, omsg, _running_processes,
                   progressWrites, cjob, cres, streamVars>>

\* process.wait(timeout=10); TimeoutExpired -> process.kill()
cancel_fine_tuning_job_wait(c) ==
    /\ cpc[c] = "wait"
    /\ proc' = [proc EXCEPT ![cjob[c]] = wait_then_kill(@)]
    /\ cpc' = [cpc EXCEPT ![c] = "write"]
    /\ UNCHANGED <<store, now, envVars, callVars, lockVars, opc, omsg, _running_processes,
                   progressWrites, cjob, chandle, cres, cancelMidRun, streamVars>>

\* job.save(update_fields=["status", "completed_at"]); return True
cancel_fine_tuning_job_write(c) ==
    /\ cpc[c] = "write"
    /\ IF store[cjob[c]].exists
       THEN /\ \E t \in Readings(now) :
                  /\ now' = t
                  /\ store' = [store EXCEPT ![cjob[c]] = cancelled_write(@, t)]
            /\ cpc' = [cpc EXCEPT ![c] = "done"]
            /\ cres' = [cres EXCEPT ![c] = TRUE]
       ELSE \* DatabaseError out of the call
            /\ cpc' = [cpc EXCEPT ![c] = "raised"]
            /\ UNCHANGED <<store, now, cres>>
    /\ UNCHANGED <<envVars, callVars, lockVars, orchVars, cjob, chandle, cancelMidRun, streamVars>>

\* --------------------------------------------------- get_job_progress_stream
\* mutant: CANCELLED is not taken for a terminal status
_TERMINAL_without_cancelled == {STATUS_COMPLETED, STATUS_FAILED}

_TERMINAL == {STATUS_COMPLETED, STATUS_FAILED, STATUS_CANCELLED}

\* {"error": "Job not found", "done": True}
NotFoundElement == [error |-> "Job not found", status |-> "", done |-> TRUE]

\* the snapshot dict of one poll
Snapshot(row) == [error |-> "", status |-> row.status, done |-> row.status \in _TERMINAL]

\* mutant: DoesNotExist is not handled, the poll goes on
poll_element_unchecked(row) == Snapshot(row)

\* what one iteration of "while True" yields
poll_element(row) == IF row.exists THEN Snapshot(row) ELSE NotFoundElement

\* mutant: the poll stores a default for total_steps before computing the percentage
get_job_progress_stream_saving(s) ==
    /\ spc[s] = "polling"
    /\ LET row == store[sjob[s]]
           el == poll_element(row)
       IN  /\ Len(yielded[s]) < MaxYield \/ el.done
           /\ yielded' = [yielded EXCEPT ![s] = Append(@, el)]
           /\ spc' = [spc EXCEPT ![s] = IF el.done THEN "ended" ELSE "polling"]
    /\ store' = [store EXCEPT ![sjob[s]].total_steps = IF @ = 0 THEN 100 ELSE @]
    /\ UNCHANGED <<now, envVars, callVars, lockVars, orchVars, cancelVars, sjob>>

\* one iteration: get, yield, return when done, else sleep
get_job_progress_stream(s) ==
    /\ spc[s] = "polling"
    /\ LET row == store[sjob[s]]
           el == poll_element(row)
       IN  /\ Len(yielded[s]) < MaxYield \/ el.done
           /\ yielded' = [yielded EXCEPT ![s] = Append(@, el)]
           /\ spc' = [spc EXCEPT ![s] = IF el.done THEN "ended" ELSE "polling"]
    /\ UNCHANGED <<store, now, envVars, callVars, lockVars, orchVars, cancelVars, sjob>>

\* ------------------------------------------------------------ specification
\* the steps of one orchestrator thread
OrchestratorStep(j) ==
    \/ _run_fine_tuning_job_load(j)
    \/ _run_fine_tuning_job_mark_running(j)
    \/ _run_fine_tuning_job_validate(j)
    \/ _execute_training_popen(j)
    \/ _execute_training_register(j)
    \/ _execute_training_line(j)
    \/ _execute_training_eof(j)
    \/ _execute_training_check(j)
    \/ _execute_training_cancel_wait(j)
    \/ _execute_training_exit_wait(j)
    \/ _register_model_with_ollama(j)
    \/ _run_fine_tuning_job_complete(j)
    \/ _fail_job(j)

\* the steps of one cancel call
CancelStep(c) ==
    \/ cancel_fine_tuning_job_load(c)
    \/ cancel_fine_tuning_job_lookup(c)
    \/ cancel_fine_tuning_job_wait(c)
    \/ cancel_fine_tuning_job_write(c)

\* orchestrator, child, cancel requests and deletes; no streamer attached
Next ==
    \/ \E j \in JobIds : ProcessExit(j)
    \/ \E j \in JobIds : finetune_delete(j)
    \/ \E j \in JobIds : OrchestratorStep(j)
    \/ \E c \in Cancellers : CancelStep(c)

Spec == Init /\ [][Next]_vars

\* the same with progress streamers attached
NextObserved ==
    \/ Next
    \/ \E s \in Streamers : get_job_progress_stream(s)

ObservedSpec == Init /\ [][NextObserved]_vars

\* a streamer that is being consumed keeps polling
FairStreamSpec == ObservedSpec /\ \A s \in Streamers : WF_vars(get_job_progress_stream(s))

\* every output of at most MaxScript lines
Scripts == UNION {[1..n -> Lines] : n \in 1..MaxScript}

\* a job with a valid dataset and the training binary installed, whose child
\* writes a fixed sequence of lines; nobody asks for cancellation
TrainingInit ==
    /\ store = [j \in JobIds |-> NewJob]
    /\ now = 1
    /\ dataset = [j \in JobIds |-> "valid"]
    /\ binary = [j \in JobIds |-> TRUE]
    /\ script \in [JobIds -> Scripts]
    /\ opc = [j \in JobIds |-> "load"]
    /\ omsg = [j \in JobIds |-> ""]
    /\ proc = [j \in JobIds |-> NoProcess]
    /\ _running_processes = [j \in JobIds |-> FALSE]
    /\ progressWrites = [j \in JobIds |-> 0]
    /\ cpc = [c \in Cancellers |-> "idle"]
    /\ cjob \in [Cancellers -> JobIds]
    /\ chandle = [c \in Cancellers |-> FALSE]
    /\ cres = [c \in Cancellers |-> FALSE]
    /\ cancelMidRun = [j \in JobIds |-> FALSE]
    /\ spc = [s \in Streamers |-> "polling"]
    /\ sjob \in [Streamers -> JobIds]
    /\ yielded = [s \in Streamers |-> <<>>]
    /\ call = NoCall
    /\ ret = NoResult
    /\ _process_lock = Unlocked

\* the steps of the orchestrator thread of such a job
TrainingStep(j) ==
    \/ _run_fine_tuning_job_load(j)
    \/ _run_fine_tuning_job_mark_running(j)
    \/ _run_fine_tuning_job_validate(j)
    \/ _execute_training_popen(j)
    \/ _execute_training_register(j)
    \/ _execute_training_script_line(j)
    \/ _execute_training_eof(j)
    \/ _execute_training_check(j)
    \/ _execute_training_exit_wait(j)
    \/ _register_model_with_ollama(j)
    \/ _run_fine_tuning_job_complete(j)
    \/ _fail_job(j)

TrainingNext ==
    \/ \E j \in JobIds : ProcessExit(j)
    \/ \E j \in JobIds : finetune_delete(j)
    \/ \E j \in JobIds : TrainingStep(j)

TrainingSpec == TrainingInit /\ [][TrainingNext]_vars

\* every output of at most MaxLines lines
ShortScripts == UNION {[1..n -> Lines] : n \in 1..MaxLines}

\* the same job with a short fixed output, and cancel requests arriving
CancelledTrainingInit ==
    /\ store = [j \in JobIds |-> NewJob]
    /\ now = 1
    /\ dataset = [j \in JobIds |-> "valid"]
    /\ binary = [j \in JobIds |-> TRUE]
    /\ script \in [JobIds -> ShortScripts]
    /\ opc = [j \in JobIds |-> "load"]
    /\ omsg = [j \in JobIds |-> ""]
    /\ proc = [j \in JobIds |-> NoProcess]
    /\ _running_processes = [j \in JobIds |-> FALSE]
    /\ progressWrites = [j \in JobIds |-> 0]
    /\ cpc = [c \in Cancellers |-> "idle"]
    /\ cjob \in [Cancellers -> JobIds]
    /\ chandle = [c \in Cancellers |-> FALSE]
    /\ cres = [c \in Cancellers |-> FALSE]
    /\ cancelMidRun = [j \in JobIds |-> FALSE]
    /\ spc = [s \in Streamers |-> "polling"]
    /\ sjob \in [Streamers -> JobIds]
    /\ yielded = [s \in Streamers |-> <<>>]
    /\ call = NoCall
    /\ ret = NoResult
    /\ _process_lock = Unlocked

CancelledTrainingNext ==
    \/ \E j \in JobIds : ProcessExit(j)
    \/ \E j \in JobIds : finetune_delete(j)
    \/ \E j \in JobIds : TrainingStep(j)
    \/ \E j \in JobIds : _execute_training_cancel_wait(j)
    \/ \E c \in Cancellers : CancelStep(c)

CancelledTrainingSpec == CancelledTrainingInit /\ [][CancelledTrainingNext]_vars

\* two jobs started one after the other
TwoJobs == {1, 2}

\* what the child of each of the two jobs writes
TwoJobScripts == [j \in TwoJobs |-> IF j = 1 THEN <<"epoch 1/2">> ELSE <<"loss: 0.45">>]

\* both jobs have a valid dataset and the binary installed; a cancel request
\* and a streamer may be aimed at either of them
TwoJobInit ==
    /\ store = [j \in TwoJobs |-> NewJob]
    /\ now = 1
    /\ dataset = [j \in TwoJobs |-> "valid"]
    /\ binary = [j \in TwoJobs |-> TRUE]
    /\ script = TwoJobScripts
    /\ opc = [j \in TwoJobs |-> "load"]
    /\ omsg = [j \in TwoJobs |-> ""]
    /\ proc = [j \in TwoJobs |-> NoProcess]
    /\ _running_processes = [j \in TwoJobs |-> FALSE]
    /\ progressWrites = [j \in TwoJobs |-> 0]
    /\ cpc = [c \in Cancellers |-> "idle"]
    /\ cjob \in [Cancellers -> TwoJobs]
    /\ chandle = [c \in Cancellers |-> FALSE]
    /\ cres = [c \in Cancellers |-> FALSE]
    /\ cancelMidRun = [j \in TwoJobs |-> FALSE]
    /\ spc = [s \in Streamers |-> "polling"]
    /\ sjob \in [Streamers -> TwoJobs]
    /\ yielded = [s \in Streamers |-> <<>>]
    /\ call = NoCall
    /\ ret = NoResult
    /\ _process_lock = Unlocked

TwoJobNext ==
    \/ \E j \in TwoJobs : ProcessExit(j)
    \/ \E j \in TwoJobs : TrainingStep(j)
    \/ \E j \in TwoJobs : _execute_training_cancel_wait(j)
    \/ \E c \in Cancellers : CancelStep(c)
    \/ \E s \in Streamers : get_job_progress_stream(s)

TwoJobSpec == TwoJobInit /\ [][TwoJobNext]_vars

\* ------------------------------------- the registry lock, one step at a time
\* the same code with entering a 'with _process_lock' block, the map
\* operation inside it and each process operation as steps of their own
ExecutorThread(j) == <<"executor", j>>
CancelThread(c) == <<"cancel", c>>

\* where an executor stands when it is about to enter a 'with' block
ExecutorLockPositions == {"register", "finally_eof", "finally_cancel"}

\* with _process_lock: (lines 303 and 364) blocks until the lock is free
_process_lock_acquire_executor(j) ==
    /\ opc[j] \in ExecutorLockPositions
    /\ _process_lock = Unlocked
    /\ _process_lock' = ExecutorThread(j)
    /\ UNCHANGED <<store, now, envVars, callVars, orchVars, cancelVars, streamVars>>

\* _running_processes[job.id] = process, and the end of the block
_execute_training_register_locked(j) ==
    /\ opc[j] = "register"
    /\ _process_lock = ExecutorThread(j)
    /\ _running_processes' = register(_running_processes, j)
    /\ _process_lock' = Unlocked
    /\ opc' = [opc EXCEPT ![j] = "read"]
    /\ UNCHANGED <<store, now, envVars, callVars, omsg, proc, progressWrites,
                   cancelVars, streamVars>>

\* the stream is exhausted: the loop is left for the finally block
_execute_training_eof_finally(j) ==
    /\ opc[j] = "read"
    /\ proc[j].state = "exited"
    /\ proc[j].emitted >= Len(script[j])
    /\ opc' = [opc EXCEPT ![j] = "finally_eof"]
    /\ UNCHANGED <<store, now, envVars, callVars, lockVars, omsg, proc,
                   _running_processes, progressWrites, cancelVars, streamVars>>

\* process.wait(timeout=10) / kill() / return: on to the finally block
_execute_training_cancel_wait_finally(j) ==
    /\ opc[j] = "cancel_wait"
    /\ proc' = [proc EXCEPT ![j] = wait_then_kill(@)]
    /\ opc' = [opc EXCEPT ![j] = "finally_cancel"]
    /\ UNCHANGED <<store, now, envVars, callVars, lockVars, omsg, _running_processes,
                   progressWrites, cancelVars, streamVars>>

\* _running_processes.pop(job.id, None), the end of the block, and on to
\* process.wait() or back to the caller
_execute_training_finally_locked(j) ==
    /\ opc[j] \in {"finally_eof", "finally_cancel"}
    /\ _process_lock = ExecutorThread(j)
    /\ _running_processes' = unregister(_running_processes, j)
    /\ _process_lock' = Unlocked
    /\ opc' = [opc EXCEPT ![j] = IF @ = "finally_eof" THEN "exit_wait"
                                                       ELSE "register_model"]
    /\ UNCHANGED <<store, now, envVars, callVars, omsg, proc, progressWrites,
                   cancelVars, streamVars>>

\* with _process_lock: (line 457)
_process_lock_acquire_cancel(c) ==
    /\ cpc[c] = "lookup"
    /\ _process_lock = Unlocked
    /\ _process_lock' = CancelThread(c)
    /\ UNCHANGED <<store, now, envVars, callVars, orchVars, cancelVars, streamVars>>

\* mutant: the process is signalled inside the 'with' block
cancel_fine_tuning_job_get_holding(c) ==
    /\ cpc[c] = "lookup"
    /\ _process_lock = CancelThread(c)
    /\ cancelMidRun' = [cancelMidRun EXCEPT ![cjob[c]] =
                           @ \/ (progressWrites[cjob[c]] > 0 /\ Alive(proc[cjob[c]]))]
    /\ chandle' = [chandle EXCEPT ![c] = _running_processes[cjob[c]]]
    /\ cpc' = [cpc EXCEPT ![c] = IF _running_processes[cjob[c]] THEN "terminate"
                                                                 ELSE "write"]
    /\ UNCHANGED <<store, now, envVars, callVars, lockVars, orchVars, cjob, cres,
                   streamVars>>

\* process = _running_processes.get(job_id), and the end of the block
cancel_fine_tuning_job_get(c) ==
    /\ cpc[c] = "lookup"
    /\ _process_lock = CancelThread(c)
    /\ cancelMidRun' = [cancelMidRun EXCEPT ![cjob[c]] =
                           @ \/ (progressWrites[cjob[c]] > 0 /\ Alive(proc[cjob[c]]))]
    /\ chandle' = [chandle EXCEPT ![c] = _running_processes[cjob[c]]]
    /\ _process_lock' = Unlocked
    /\ cpc' = [cpc EXCEPT ![c] = IF _running_processes[cjob[c]] THEN "terminate"
                                                                 ELSE "write"]
    /\ UNCHANGED <<store, now, envVars, callVars, orchVars, cjob, cres, streamVars>>

\* if process is not None: process.terminate()
cancel_fine_tuning_job_terminate(c) ==
    /\ cpc[c] = "terminate"
    /\ proc' = [proc EXCEPT ![cjob[c]] = terminate(@)]
    /\ cpc' = [cpc EXCEPT ![c] = "wait"]
    /\ UNCHANGED <<store, now, envVars, callVars, lockVars, opc, omsg,
                   _running_processes, progressWrites, cjob, chandle, cres,
                   cancelMidRun, streamVars>>

\* the steps of one orchestrator thread, the lock taken and released in steps
LockedTrainingStep(j) ==
    \/ _run_fine_tuning_job_load(j)
    \/ _run_fine_tuning_job_mark_running(j)
    \/ _run_fine_tuning_job_validate(j)
    \/ _execute_training_popen(j)
    \/ _process_lock_acquire_executor(j)
    \/ _execute_training_register_locked(j)
    \/ _execute_training_script_line(j)
    \/ _execute_training_eof_finally(j)
    \/ _execute_training_check(j)
    \/ _execute_training_cancel_wait_finally(j)
    \/ _execute_training_finally_locked(j)
    \/ _execute_training_exit_wait(j)
    \/ _register_model_with_ollama(j)
    \/ _run_fine_tuning_job_complete(j)
    \/ _fail_job(j)

\* the steps of one cancel call, likewise
LockedCancelStep(c) ==
    \/ cancel_fine_tuning_job_load(c)
    \/ _process_lock_acquire_cancel(c)
    \/ cancel_fine_tuning_job_get(c)
    \/ cancel_fine_tuning_job_terminate(c)
    \/ cancel_fine_tuning_job_wait(c)
    \/ cancel_fine_tuning_job_write(c)

\* two jobs and a cancel call for either of them, no streamer
LockInit ==
    /\ TwoJobInit
    /\ \A s \in Streamers : sjob[s] = 1

LockNext ==
    \/ \E j \in TwoJobs : ProcessExit(j)
    \/ \E j \in TwoJobs : LockedTrainingStep(j)
    \/ \E c \in Cancellers : LockedCancelStep(c)

LockSpec == LockInit /\ [][LockNext]_vars

\* --------------------------------------------- the functions called alone
\* every sequence of at most n elements of S
SeqUpTo(S, n) == UNION {[1..k -> S] : k \in 0..n}

DatasetFiles ==
    {DatasetFile(FALSE, FALSE, ".jsonl", TRUE, <<>>),
     DatasetFile(TRUE, FALSE, ".jsonl", TRUE, <<>>),
     DatasetFile(TRUE, TRUE, ".txt", TRUE, <<>>),
     DatasetFile(TRUE, TRUE, ".jsonl", FALSE, <<>>),
     DatasetFile(TRUE, TRUE, ".csv", FALSE, <<>>)}
    \cup {DatasetFile(TRUE, TRUE, ".jsonl", TRUE, l) : l \in SeqUpTo(JsonLines, MaxFileLines)}
    \cup {DatasetFile(TRUE, TRUE, ".csv", TRUE, l) : l \in SeqUpTo(CsvLines, MaxFileLines)}

BaseModels == {"llama3.2:latest", "mistral:latest"}

Calls ==
    {[fn |-> "validate_dataset_format", file |-> f, base_model |-> "", system_prompt |-> <<>>] :
        f \in DatasetFiles}
    \cup {[fn |-> "create_modelfile", file |-> NoFile, base_model |-> b, system_prompt |-> p] :
             b \in BaseModels, p \in SeqUpTo(PromptChars, MaxPrompt)}

jobVars == <<store, now, envVars, orchVars, cancelVars, streamVars, lockVars>>

\* one call of one function, no job running
LibraryInit ==
    /\ store = [j \in JobIds |-> NewJob]
    /\ now = 1
    /\ dataset = [j \in JobIds |-> "valid"]
    /\ binary = [j \in JobIds |-> TRUE]
    /\ script = [j \in JobIds |-> <<>>]
    /\ opc = [j \in JobIds |-> "load"]
    /\ omsg = [j \in JobIds |-> ""]
    /\ proc = [j \in JobIds |-> NoProcess]
    /\ _running_processes = [j \in JobIds |-> FALSE]
    /\ progressWrites = [j \in JobIds |-> 0]
    /\ cpc = [c \in Cancellers |-> "idle"]
    /\ cjob = [c \in Cancellers |-> 1]
    /\ chandle = [c \in Cancellers |-> FALSE]
    /\ cres = [c \in Cancellers |-> FALSE]
    /\ cancelMidRun = [j \in JobIds |-> FALSE]
    /\ spc = [s \in Streamers |-> "polling"]
    /\ sjob = [s \in Streamers |-> 1]
    /\ yielded = [s \in Streamers |-> <<>>]
    /\ call \in Calls
    /\ ret = NoResult
    /\ _process_lock = Unlocked

call_validate_dataset_format ==
    /\ call.fn = "validate_dataset_format"
    /\ ret = NoResult
    /\ ret' = validate_dataset_format(call.file)
    /\ UNCHANGED <<call, jobVars>>

call_create_modelfile ==
    /\ call.fn = "create_modelfile"
    /\ ret = NoResult
    /\ ret' = [Returned(0, <<>>) EXCEPT
                  !.text = create_modelfile(call.base_model, call.system_prompt)]
    /\ UNCHANGED <<call, jobVars>>

LibraryNext == call_validate_dataset_format \/ call_create_modelfile

LibrarySpec == LibraryInit /\ [][LibraryNext]_vars

\* ------------------------------------------------------------------ claims
TerminalStatuses == {"completed", "failed", "cancelled"}
OrchestratorEnded ==
    {"done", "crashed_mark", "crashed_validate", "crashed_register", "crashed_complete"}

\* C1: once a job's stored status is COMPLETED, FAILED or CANCELLED, no later
\* write changes it to another value.
C1_TerminalAbsorbing ==
    [][\A j \in JobIds :
          (store[j].exists /\ store'[j].exists
             /\ store[j].status \in TerminalStatuses)
          => store'[j].status = store[j].status]_vars

\* C2: once every cancel call has returned, a cancellation whose registry
\* lookup came after the first progress write while the child was alive leaves the job CANCELLED and the
\* child not running once the orchestrator thread has finished.
C2_CancelMidRunEndsCancelled ==
    \A j \in JobIds :
       (/\ opc[j] \in OrchestratorEnded
        /\ store[j].exists
        /\ cancelMidRun[j]
        /\ \A c \in Cancellers : cjob[c] = j => cpc[c] \in {"idle", "done"})
       => (store[j].status = STATUS_CANCELLED /\ ~Alive(proc[j]))

\* C3: in every reachable state fine_tuned_model is non-empty exactly when
\* the stored status is COMPLETED.
C3_ModelIffCompleted ==
    \A j \in JobIds :
       store[j].exists =>
          (store[j].fine_tuned_model # "" <=> store[j].status = STATUS_COMPLETED)

\* C4: a cancel call that found the handle registered returns True with the
\* child no longer alive and the status written as CANCELLED.
C4_CancelRegistered ==
    [][\A c \in Cancellers :
          (cpc[c] = "write" /\ chandle[c] /\ cpc'[c] = "done")
          => (/\ cres'[c] = TRUE
              /\ store'[cjob[c]].status = "cancelled"
              /\ proc'[cjob[c]].state = "exited")]_vars

C4_Witness ==
    \E c \in Cancellers :
       /\ cpc[c] = "done" /\ chandle[c] /\ cres[c]
       /\ proc[cjob[c]].state = "exited" /\ proc[cjob[c]].code = SIGKILL_CODE
       /\ store[cjob[c]].status = "cancelled"

\* C5: a cancel call on a job that is absent or not RUNNING returns False
\* without raising and changes neither the job row, the registry nor the child.
C5_CancelNotRunning ==
    [][\A c \in Cancellers :
          (/\ cpc[c] = "idle" /\ cpc'[c] # "idle"
           /\ ~(store[cjob[c]].exists /\ store[cjob[c]].status = "running"))
          => (/\ cpc'[c] = "done" /\ cres'[c] = FALSE
              /\ UNCHANGED <<store, _running_processes, proc>>)]_vars

C5_Witness ==
    \E c \in Cancellers :
       /\ cpc[c] = "done" /\ ~cres[c]
       /\ opc[cjob[c]] = "load"
       /\ store[cjob[c]].exists /\ store[cjob[c]].status = "pending"

\* C6: no error raised during validation, training, registration or the
\* completion write escapes _run_fine_tuning_job; each becomes FAILED with a
\* non-empty error_message.
C6_NoErrorEscapes ==
    \A j \in JobIds :
       /\ opc[j] \notin {"crashed_validate", "crashed_register", "crashed_complete"}
       /\ (opc[j] = "done" /\ omsg[j] # "" /\ store[j].exists)
          => (store[j].status = "failed" /\ store[j].error_message # "")

\* C7: once the orchestrator thread has ended, a job it loaded has a terminal
\* status.
C7_EndsTerminal ==
    \A j \in JobIds :
       (opc[j] \in OrchestratorEnded /\ store[j].exists)
       => store[j].status \in TerminalStatuses

\* C8: the registry holds an entry for a job only while the executor is in
\* its output loop; it is removed on every way out of _execute_training.
C8_RegistryScoped ==
    \A j \in JobIds :
       _running_processes[j] => opc[j] \in {"read", "check", "cancel_wait"}

C8_Witness ==
    \E j \in JobIds :
       /\ opc[j] = "fail" /\ omsg[j] = MsgUnexpected
       /\ proc[j].state # "none"
       /\ ~_running_processes[j]

\* C9: every yielded element but the last has done = false and a non-terminal
\* status, the stream ends with the first terminal snapshot (done = true), and
\* a stream on a terminal job eventually ends.
C9_StreamShape ==
    \A s \in Streamers :
       LET y == yielded[s]
       IN  /\ \A i \in 1..Len(y) :
                i < Len(y) => (~y[i].done /\ y[i].status \notin TerminalStatuses)
           /\ \A i \in 1..Len(y) :
                y[i].error = "" => (y[i].done <=> y[i].status \in TerminalStatuses)
           /\ spc[s] = "ended" <=> (Len(y) > 0 /\ y[Len(y)].done)

C9_StreamEnds ==
    /\ []C9_StreamShape
    /\ \A s \in Streamers :
          (store[sjob[s]].exists /\ store[sjob[s]].status \in TerminalStatuses)
             ~> (spc[s] = "ended")

C9_Witness ==
    \E s \in Streamers :
       /\ spc[s] = "ended" /\ Len(yielded[s]) = 2
       /\ yielded[s][1].status = "running" /\ ~yielded[s][1].done
       /\ yielded[s][2].status \in TerminalStatuses /\ yielded[s][2].done

\* C10: a poll that finds no row yields the single element
\* {"error": "Job not found", "done": true} and ends the stream, on the first
\* poll as well as after a delete between two polls.
C10_NotFound ==
    /\ [](\A s \in Streamers : \A i \in 1..Len(yielded[s]) :
            yielded[s][i].error # "" =>
               (/\ yielded[s][i].error = "Job not found" /\ yielded[s][i].done
                /\ i = Len(yielded[s]) /\ spc[s] = "ended"))
    /\ [][\A s \in Streamers :
            (~store[sjob[s]].exists /\ yielded'[s] # yielded[s])
            => (/\ yielded'[s] = Append(yielded[s],
                      [error |-> "Job not found", status |-> "", done |-> TRUE])
                /\ spc'[s] = "ended")]_vars

C10_Witness ==
    \E s \in Streamers :
       /\ spc[s] = "ended"
       /\ Len(yielded[s]) = 1
       /\ yielded[s][1].error = "Job not found" /\ yielded[s][1].done

\* C11: a step of a progress streamer changes no field of any job row, no
\* registry entry, nor anything else the orchestrator, the executor or a
\* cancel call reads, so the stored job states are the same with streamers
\* attached.
C11_StreamersOnlyRead ==
    [][(streamVars' # streamVars)
         => UNCHANGED <<store, _running_processes, proc, now, envVars, callVars, lockVars,
                        opc, omsg, progressWrites, cancelVars>>]_vars

C11_Witness ==
    \E s \in Streamers :
       /\ Len(yielded[s]) = 1 /\ yielded[s][1].status = "running"
       /\ spc[s] = "polling"
       /\ store[sjob[s]].exists /\ store[sjob[s]].status = "completed"
       /\ progressWrites[sjob[s]] > 0

\* C12: no step takes a stored status from PENDING to a terminal status (a
\* terminal job has been stamped RUNNING), and whenever started_at and
\* completed_at are both set, started_at <= completed_at.
C12_RunningFirst ==
    /\ [][\A j \in JobIds :
            (store[j].exists /\ store'[j].exists /\ store[j].status = "pending")
            => store'[j].status \in {"pending", "running"}]_vars
    /\ [](\A j \in JobIds :
            store[j].exists =>
               /\ (store[j].status \in TerminalStatuses => store[j].started_at # NullTime)
               /\ (store[j].started_at # NullTime /\ store[j].completed_at # NullTime)
                    => store[j].started_at <= store[j].completed_at)

C12_Witness ==
    \E j \in JobIds :
       /\ store[j].exists /\ store[j].status = "cancelled"
       /\ store[j].started_at # NullTime
       /\ store[j].started_at < store[j].completed_at

\* C13: once completed_at is set, no later write changes it.
C13_CompletedAtOnce ==
    [][\A j \in JobIds :
          (store[j].exists /\ store'[j].exists /\ store[j].completed_at # NullTime)
          => store'[j].completed_at = store[j].completed_at]_vars

\* C14: started_at changes only in the step that takes the status from
\* PENDING to RUNNING, which stamps it; no job that is RUNNING or terminal is
\* moved to RUNNING or stamped again.
C14_StartedAtOnce ==
    [][\A j \in JobIds :
          (store[j].exists /\ store'[j].exists) =>
             /\ (store'[j].started_at # store[j].started_at)
                  => (/\ store[j].status = "pending" /\ store'[j].status = "running"
                      /\ store[j].started_at = NullTime)
             /\ (store'[j].status = "running" /\ store[j].status # "running")
                  => (store[j].status = "pending" /\ store'[j].started_at # NullTime)]_vars

C14_Witness ==
    \E j \in JobIds :
       /\ store[j].exists /\ store[j].status \in TerminalStatuses
       /\ store[j].started_at = 1 /\ store[j].completed_at = 2

\* C15: when the child has written its lines and exited 0, registration has
\* succeeded and nobody has cancelled, the job is COMPLETED with
\* fine_tuned_model the derived name, current_epoch = N, current_step = 100*N
\* and total_steps = 100*M for the last 'epoch N/M' line, and loss the value of
\* the last loss line; for 'epoch 1/2', 'loss: 0.45', 'epoch 2/2' that is
\* current_epoch 2, total_steps 200, loss 0.45.
EpochLines(sc) == {i \in 1..Len(sc) : epoch_pattern(strip(sc[i])) # <<>>}
LossLines(sc) == {i \in 1..Len(sc) : loss_pattern(strip(sc[i])) # <<>>}
LastOf(S) == CHOOSE i \in S : \A k \in S : k <= i
ScenarioScript == <<"epoch 1/2", "loss: 0.45", "epoch 2/2">>

C15_MergedProgress ==
    \A j \in JobIds :
       (/\ opc[j] = "done" /\ omsg[j] = "" /\ store[j].exists
        /\ proc[j].state = "exited" /\ proc[j].code = 0)
       => LET sc == script[j]
              row == store[j]
          IN  /\ row.status = "completed"
              /\ row.fine_tuned_model = "m-finetuned-1"
              /\ IF EpochLines(sc) # {}
                 THEN LET m == epoch_pattern(strip(sc[LastOf(EpochLines(sc))]))
                      IN  /\ row.current_epoch = m[1]
                          /\ row.current_step = 100 * m[1]
                          /\ row.total_steps = 100 * m[2]
                 ELSE row.current_epoch = 0 /\ row.current_step = 0 /\ row.total_steps = 0
              /\ IF LossLines(sc) # {}
                 THEN row.loss = loss_pattern(strip(sc[LastOf(LossLines(sc))]))[1]
                 ELSE row.loss = NullLoss
              /\ sc = ScenarioScript
                    => (/\ row.current_epoch = 2 /\ row.current_step = 200
                        /\ row.total_steps = 200 /\ row.loss = 45)

C15_Witness ==
    \E j \in JobIds :
       /\ script[j] = ScenarioScript
       /\ opc[j] = "done" /\ store[j].exists /\ store[j].status = "completed"
       /\ store[j].fine_tuned_model = "m-finetuned-1"
       /\ store[j].current_epoch = 2 /\ store[j].total_steps = 200 /\ store[j].loss = 45

\* C16: for a job with a valid dataset whose training binary is missing, the
\* orchestrator ends by writing FAILED with the message that names the
\* training binary, which then stays; fine_tuned_model stays empty, no child
\* and no registry entry ever exist, and the registrar is never reached.
BinaryMissing(j) == dataset[j] = "valid" /\ ~binary[j]

C17_ValidationFailed ==
    /\ [](\A j \in JobIds :
            dataset_errors(dataset[j]) # <<>> =>
               /\ proc[j].state = "none" /\ ~_running_processes[j]
               /\ opc[j] \in {"load", "mark_running", "crashed_mark", "validate",
                              "fail", "done"})
    /\ [][\A j \in JobIds :
            (/\ dataset_errors(dataset[j]) # <<>>
             /\ opc[j] = "fail" /\ opc'[j] = "done" /\ store'[j].exists)
            => (/\ store'[j].status = "failed"
                /\ store'[j].error_message =
                      "Dataset validation failed: Line 1: Missing 'messages' field; Line 2, message 0: missing 'role' or 'content'")]_vars

C17_Witness ==
    \E j \in JobIds :
       /\ dataset[j] = "invalid" /\ opc[j] = "done"
       /\ store[j].exists /\ store[j].status = "failed"
       /\ store[j].error_message = MsgValidation
       /\ proc[j].state = "none"

C19_RaceStaysCancelled ==
    [][\A j \in JobIds :
          (/\ \A c \in Cancellers : cjob[c] = j => ~chandle[c]
           /\ \E c \in Cancellers : cjob[c] = j /\ cpc[c] = "done" /\ cres[c]
           /\ proc[j].state = "exited"
           /\ proc[j].code \in {SIGTERM_CODE, SIGKILL_CODE}
           /\ store[j].exists /\ store'[j].exists
           /\ store[j].status = "cancelled")
          => store'[j].status = "cancelled"]_vars

\* C20: total_steps is never negative, and no write lowers a total_steps that
\* is non-zero, whatever lines the child writes.
C20_TotalStepsMonotone ==
    /\ [](\A j \in JobIds : store[j].total_steps >= 0)
    /\ [][\A j \in JobIds :
            (store[j].exists /\ store'[j].exists /\ store[j].total_steps # 0)
            => store'[j].total_steps >= store[j].total_steps]_vars

\* C21: validate_dataset_format lets no exception out, whatever the file
\* holds: it returns a count >= 0 and an error list.
C21_NeverRaises ==
    call.fn = "validate_dataset_format"
       => (ret.raised \in {"pending", ""} /\ ret.count >= 0)

\* C22: when validate_dataset_format returns for a .jsonl file, the count is
\* the number of non-blank lines, every line that does not parse or whose
\* messages field is missing or not a list has exactly one error carrying its
\* line number, errors come in line order, and a file of N well-formed records
\* gives (N, []).
UnparsedOrNoMessages == {"{bad", "{\"invalid\": \"format\"}", "{\"messages\": \"hi\"}"}
WellFormedRecord == "{\"messages\": [{\"role\": \"user\", \"content\": \"Hello\"}]}"
JsonlCall ==
    /\ call.fn = "validate_dataset_format"
    /\ call.file.exists /\ call.file.readable /\ call.file.decodable
    /\ call.file.suffix = ".jsonl"

C22_JsonlCount ==
    (JsonlCall /\ ret.raised = "") =>
       LET lines == call.file.lines
       IN  /\ ret.count = Cardinality({i \in 1..Len(lines) : lines[i] # "  "})
           /\ \A i \in 1..Len(lines) :
                 /\ lines[i] \in UnparsedOrNoMessages
                      => Cardinality({k \in 1..Len(ret.errors) : ret.errors[k].line = i}) = 1
                 /\ lines[i] \in {"  ", WellFormedRecord}
                      => \A k \in 1..Len(ret.errors) : ret.errors[k].line # i
           /\ \A k \in 1..Len(ret.errors) :
                 /\ ret.errors[k].line \in 1..Len(lines)
                 /\ k > 1 => ret.errors[k - 1].line <= ret.errors[k].line
           /\ (\A i \in 1..Len(lines) : lines[i] = WellFormedRecord)
                 => (ret.count = Len(lines) /\ ret.errors = <<>>)

C22_Witness ==
    /\ JsonlCall
    /\ call.file.lines = <<"{bad", "  ", "{\"invalid\": \"format\"}">>
    /\ ret.raised = "" /\ ret.count = 2 /\ Len(ret.errors) = 2
    /\ ret.errors[1].line = 1 /\ ret.errors[2].line = 3

\* C23: when validate_dataset_format returns for a .csv file whose header
\* lacks role or content (an empty file included) the result is count 0 and
\* exactly one error, whatever rows follow; with both columns every data row
\* is counted and each row with an empty role or content has one error
\* carrying its row number.
CsvCall ==
    /\ call.fn = "validate_dataset_format"
    /\ call.file.exists /\ call.file.readable /\ call.file.decodable
    /\ call.file.suffix = ".csv"

RowsWithEmptyField == {",Hello", "user,", "role", "content"}

\* the non-blank lines after the header, in order
DataLines(lines) == SelectSeq(SubSeq(lines, 2, Len(lines)), LAMBDA l : l # "")

C23_CsvColumns ==
    (CsvCall /\ ret.raised = "") =>
       LET lines == call.file.lines
           rows == DataLines(lines)
       IN  IF Len(lines) = 0 \/ lines[1] # "role,content"
           THEN ret.count = 0 /\ Len(ret.errors) = 1
           ELSE /\ ret.count = Len(rows)
                /\ \A i \in 1..Len(rows) :
                      Cardinality({k \in 1..Len(ret.errors) : ret.errors[k].line = i})
                         = IF rows[i] \in RowsWithEmptyField THEN 1 ELSE 0
                /\ \A k \in 1..Len(ret.errors) : ret.errors[k].line \in 1..Len(rows)

C23_Witness ==
    /\ CsvCall
    /\ call.file.lines = <<"role,content", ",Hello", "user,">>
    /\ ret.raised = "" /\ ret.count = 2 /\ Len(ret.errors) = 2
    /\ ret.errors[1].line = 1 /\ ret.errors[2].line = 2

\* C24: the text create_modelfile returns starts with the line
\* 'FROM <base_model>', and it has a SYSTEM block, which carries the prompt,
\* exactly when system_prompt is not empty.
FirstLine(text) ==
    LET k == CHOOSE k \in 1..Len(text) :
                /\ text[k] = "\n"
                /\ \A m \in 1..(k - 1) : text[m] # "\n"
    IN  SubSeq(text, 1, k - 1)

C24_Modelfile ==
    (call.fn = "create_modelfile" /\ ret.raised = "") =>
       LET text == ret.text
           head == <<"FROM ", call.base_model, "\n", "SYSTEM \"\"\"", "\n">>
       IN  /\ FirstLine(text) = <<"FROM ", call.base_model>>
           /\ (\E k \in 1..Len(text) : text[k] = "SYSTEM \"\"\"") <=> call.system_prompt # <<>>
           /\ call.system_prompt = <<>> => text = <<"FROM ", call.base_model, "\n">>
           /\ call.system_prompt # <<>> =>
                 /\ SubSeq(text, 1, 5) = head
                 /\ SubSeq(text, Len(text) - 2, Len(text)) = <<"\n", "\"\"\"", "\n">>
                 /\ SelectSeq(SubSeq(text, 6, Len(text) - 3), LAMBDA c : c # "\\")
                       = call.system_prompt

C24_Witness ==
    /\ call.fn = "create_modelfile"
    /\ call.system_prompt = <<"a", "\"", "\"", "\"">>
    /\ ret.text = <<"FROM ", call.base_model, "\n", "SYSTEM \"\"\"", "\n",
                    "a", "\"", "\"", "\\", "\"", "\n", "\"\"\"", "\n">>

\* C25: when _execute_training returns because its status poll read
\* CANCELLED, the orchestrator does nothing more for the job: its next
\* position is the end of the thread, not the Model Registrar.
C25_CancelReturnEnds ==
    [][\A j \in JobIds :
          (opc[j] = "cancel_wait" /\ opc'[j] # opc[j]) => opc'[j] = "done"]_vars

\* C26: a child that exited on the signal of the cancellation path (SIGTERM
\* or SIGKILL) never has its exit code turned into a training error handed
\* to _fail_job.
C26_CancelNotFailure ==
    \A j \in JobIds :
       ~(opc[j] = "fail" /\ omsg[j] \in {MsgExit(SIGTERM_CODE), MsgExit(SIGKILL_CODE)})

\* C27: after every line of child output that was handled without an
\* exception, blank or not, the executor's next step is the re-read of the
\* status column.
C27_PollAfterEveryLine ==
    [][\A j \in JobIds :
          proc'[j].emitted > proc[j].emitted => opc'[j] \in {"check", "fail"}]_vars

\* the positions inside _execute_training after Popen returned
ExecutorPositions == {"register", "read", "check", "cancel_wait", "exit_wait"}

\* C28: a child process that is alive is supervised by the executor that
\* started it: no way out of _execute_training leaves it running.
C28_ChildOwned ==
    \A j \in JobIds : Alive(proc[j]) => opc[j] \in ExecutorPositions

\* the columns a line's matches name
MatchedFields(line) ==
    (IF epoch_pattern(line) # <<>>
     THEN {"current_epoch", "current_step", "total_steps"} ELSE {})
    \cup (IF loss_pattern(line) # <<>> THEN {"loss"} ELSE {})

\* C29: the step that handles one line of output changes, in the stored row,
\* nothing but the progress columns matched on that line (so never status,
\* started_at, completed_at, error_message or fine_tuned_model, whatever the
\* cancellation path has stored meanwhile); it counts as one progress write
\* when the line matched and as none when it did not; and nothing else is a
\* progress write.
C29_PartialWrite ==
    [][\A j \in JobIds :
          /\ progressWrites'[j] # progressWrites[j]
                => proc'[j].emitted = proc[j].emitted + 1
          /\ proc'[j].emitted = proc[j].emitted + 1 =>
                LET line == strip(script[j][proc[j].emitted + 1])
                IN  /\ progressWrites'[j] - progressWrites[j] =
                          IF MatchedFields(line) # {} /\ store[j].exists THEN 1 ELSE 0
                    /\ \A f \in DOMAIN store[j] :
                          store'[j][f] # store[j][f] => f \in MatchedFields(line)
                    /\ progressWrites'[j] # progressWrites[j] =>
                          /\ epoch_pattern(line) # <<>> =>
                                /\ store'[j].current_epoch = epoch_pattern(line)[1]
                                /\ store'[j].current_step = epoch_pattern(line)[1] * 100
                                /\ store'[j].total_steps = epoch_pattern(line)[2] * 100
                          /\ loss_pattern(line) # <<>> =>
                                store'[j].loss = loss_pattern(line)[1]]_vars

\* a progress write has been made to a row that a cancel call has marked
\* CANCELLED, and status and completion time are the cancel call's
C29_Witness ==
    \E j \in JobIds :
       /\ opc[j] = "check"
       /\ proc[j].emitted = 1
       /\ script[j][1] = "epoch 1/2"
       /\ progressWrites[j] = 1
       /\ store[j].current_epoch = 1
       /\ store[j].total_steps = 200
       /\ store[j].status = STATUS_CANCELLED
       /\ store[j].completed_at # NullTime
       /\ \E c \in Cancellers : cjob[c] = j /\ cres[c]

\* C30: an executor progress write takes effect only while the stored status
\* is RUNNING.
C30_ProgressOnlyRunning ==
    [][\A j \in JobIds :
          progressWrites'[j] > progressWrites[j]
          => store[j].status = STATUS_RUNNING]_vars

\* the columns that differ between two versions of a row
Changed(old, new) == {f \in DOMAIN old : new[f] # old[f]}

CreationFields == {"base_model", "dataset_file", "epochs", "learning_rate", "batch_size"}

\* C31: on a row that exists, the completion write changes nothing but
\* status, fine_tuned_model and completed_at, _fail_job nothing but status,
\* error_message and completed_at, the cancel call's write nothing but status
\* and completed_at, and no step changes base_model, dataset_file, epochs,
\* learning_rate or batch_size.
C31_TerminalWritesFramed ==
    [][\A j \in JobIds :
          (store[j].exists /\ store'[j].exists) =>
             LET changed == Changed(store[j], store'[j])
             IN  /\ (opc[j] = "complete" /\ opc'[j] = "done")
                       => changed \subseteq {"status", "fine_tuned_model", "completed_at"}
                 /\ (opc[j] = "fail" /\ opc'[j] = "done")
                       => changed \subseteq {"status", "error_message", "completed_at"}
                 /\ (\E c \in Cancellers :
                        cjob[c] = j /\ cpc[c] = "write" /\ cpc'[c] = "done")
                       => changed \subseteq {"status", "completed_at"}
                 /\ changed \cap CreationFields = {}]_vars

\* a job has been completed after the executor persisted progress that does
\* not stand at its end, and the progress is still in the row
C31_Witness ==
    \E j \in JobIds :
       /\ opc[j] = "done"
       /\ store[j].status = STATUS_COMPLETED
       /\ store[j].fine_tuned_model = model_name(j)
       /\ store[j].current_step = 100
       /\ store[j].total_steps = 200
       /\ store[j].epochs = 3

\* C32: a stored row whose status is not FAILED has an empty error_message.
C32_ErrorOnlyWhenFailed ==
    \A j \in JobIds :
       (store[j].exists /\ store[j].error_message # "")
          => store[j].status = STATUS_FAILED

\* C33: a stored row whose status is FAILED has a non-empty error_message and
\* a completed_at, and _fail_job always returns to its caller, which then
\* returns: also when the row it should mark is gone.
C33_FailedStamped ==
    /\ [](\A j \in JobIds :
            (store[j].exists /\ store[j].status = STATUS_FAILED)
               => (store[j].error_message # "" /\ store[j].completed_at # NullTime))
    /\ [][\A j \in JobIds :
            (opc[j] = "fail" /\ opc'[j] # opc[j]) => opc'[j] = "done"]_vars

\* _fail_job has marked a job FAILED
C33_Witness ==
    \E j \in JobIds :
       /\ opc[j] = "done"
       /\ store[j].exists
       /\ store[j].status = STATUS_FAILED
       /\ store[j].error_message = MsgValidation
       /\ store[j].completed_at # NullTime

\* the positions from the Model Registrar on
AfterTraining == {"register_model", "complete", "crashed_register", "crashed_complete"}

\* C34: with no cancel request, the executor's exit-code check raises the
\* training error carrying the code when the code is non-zero and hands over
\* to the Model Registrar when it is zero; _fail_job stores that error as
\* FAILED, which is how the job is found once the thread has ended; and the
\* registrar is reached from the exit-code check only, with code 0, and
\* never twice.
C34_ExitCode ==
    /\ [][\A j \in JobIds :
            (opc[j] = "exit_wait" /\ opc'[j] # opc[j]) =>
               IF proc[j].code # 0
               THEN opc'[j] = "fail" /\ omsg'[j] = MsgExit(proc[j].code)
               ELSE opc'[j] = "register_model" /\ omsg'[j] = omsg[j]]_vars
    /\ [][\A j \in JobIds :
            (opc'[j] = "register_model" /\ opc[j] # "register_model")
               => (opc[j] = "exit_wait" /\ proc[j].code = 0)]_vars
    /\ [][\A j \in JobIds :
            (opc[j] \in AfterTraining \cup {"fail", "done"})
               => opc'[j] \in (AfterTraining \ {"register_model"}) \cup {opc[j], "fail", "done"}]_vars
    /\ [](\A j \in JobIds :
            /\ opc[j] \in AfterTraining => (proc[j].state = "exited" /\ proc[j].code = 0)
            /\ (opc[j] = "done" /\ store[j].exists
                /\ proc[j].state = "exited" /\ proc[j].code # 0)
                  => /\ store[j].status = STATUS_FAILED
                     /\ store[j].error_message = MsgExit(proc[j].code)
                     /\ store[j].fine_tuned_model = "")

\* a child that wrote its lines and exited with code 1 has left its job FAILED
C34_Witness ==
    \E j \in JobIds :
       /\ opc[j] = "done"
       /\ proc[j].emitted = Len(script[j])
       /\ proc[j].state = "exited" /\ proc[j].code = 1
       /\ store[j].exists
       /\ store[j].status = STATUS_FAILED
       /\ store[j].error_message = "Training process exited with code 1 (job_id=1)"

\* the diagnostics of the three registration failures
RegistrarMessages == {MsgCreateFailed, MsgCreateTimeout, MsgOllamaMissing}

C36_AbsentIsNothingToDo ==
    \A j \in JobIds : opc[j] \notin {"crashed_mark", "crashed_complete"}

\* C39: once a streamer has ended on a snapshot of the job, the stored row
\* keeps the status that snapshot carried.
C39_FinalSnapshotStays ==
    \A s \in Streamers :
       (spc[s] = "ended" /\ yielded[s][Len(yielded[s])].error = ""
        /\ store[sjob[s]].exists)
          => store[sjob[s]].status = yielded[s][Len(yielded[s])].status

\* a step of job a's orchestrator thread or child, of a cancel call for a, or
\* of a streamer attached to a
StepOf(a) ==
    \/ opc'[a] # opc[a]
    \/ proc'[a] # proc[a]
    \/ \E c \in Cancellers : cjob[c] = a /\ cpc'[c] # cpc[c]
    \/ \E s \in Streamers : sjob[s] = a /\ yielded'[s] # yielded[s]

\* C38: a step taken for one job leaves the other job's row, registry entry
\* and child process as they were.
C38_JobsIsolated ==
    [][\A a \in TwoJobs : \A b \in TwoJobs \ {a} :
          StepOf(a) => /\ store'[b] = store[b]
                       /\ _running_processes'[b] = _running_processes[b]
                       /\ proc'[b] = proc[b]]_vars

\* job 1 has been cancelled through its registered handle while job 2 was
\* training, and job 2 went on to complete with its own model name
C38_Witness ==
    /\ \E c \in Cancellers : cjob[c] = 1 /\ chandle[c] /\ cres[c]
    /\ store[1].status = STATUS_CANCELLED
    /\ proc[1].code \in {SIGTERM_CODE, SIGKILL_CODE}
    /\ proc[2].state = "exited" /\ proc[2].code = 0
    /\ store[2].status = STATUS_COMPLETED
    /\ store[2].fine_tuned_model = model_name(2)
    /\ store[2].loss = 45 /\ store[2].current_epoch = 0
    /\ store[1].loss = NullLoss

\* C37: the registry map is written by an executor only while that executor
\* holds _process_lock and read by a cancel call only while that call holds
\* it; a thread holds the lock only at a map operation, so no thread holds it
\* in a step in which it signals, waits on or kills a child.
C37_LockDiscipline ==
    /\ [][\A j \in TwoJobs :
            _running_processes'[j] # _running_processes[j]
               => _process_lock = ExecutorThread(j)]_vars
    /\ [][\A c \in Cancellers :
            (cpc[c] = "lookup" /\ cpc'[c] # "lookup")
               => _process_lock = CancelThread(c)]_vars
    /\ [](\A j \in TwoJobs :
            _process_lock = ExecutorThread(j) => opc[j] \in ExecutorLockPositions)
    /\ [](\A c \in Cancellers :
            _process_lock = CancelThread(c) => cpc[c] = "lookup")
    /\ [][/\ \A j \in TwoJobs :
               (opc[j] \in {"check", "cancel_wait"} /\ opc'[j] # opc[j])
                  => (_process_lock # ExecutorThread(j) /\ _process_lock' = _process_lock)
          /\ \A c \in Cancellers :
               (cpc[c] \in {"terminate", "wait"} /\ cpc'[c] # cpc[c])
                  => (_process_lock # CancelThread(c) /\ _process_lock' = _process_lock)]_vars

\* a cancel call has signalled the child of job 1 and waits for it, while the
\* executor of job 2 is inside its 'with _process_lock' block
C37_Witness ==
    \E c \in Cancellers :
       /\ cjob[c] = 1 /\ cpc[c] = "wait" /\ chandle[c]
       /\ proc[1].state = "signalled"
       /\ _process_lock = ExecutorThread(2)
       /\ opc[2] = "register"
====
